---- MODULE Spec2Model ----
(***************************************************************************)
(* A model of ss_py/scheme.py: tokenizer, parser, environment chain,       *)
(* evaluator with its special forms, the builtin procedures, and the two   *)
(* drivers (repl_mode and file_mode).                                      *)
(*                                                                         *)
(* Representation.                                                         *)
(*   - Source text is a sequence of chunks.  A chunk is "(", ")", " "      *)
(*     (one whitespace character), ";" or a run of other characters.       *)
(*     Adjacent non-blank chunks belong to the same word, exactly as       *)
(*     adjacent characters do in a Python string.                          *)
(*   - Python objects are tagged records:                                  *)
(*       [t |-> "float", n, d]   a float, held exactly as the rational n/d *)
(*       [t |-> "int", n]        a Python int (sum(()) and bool arithmetic)*)
(*       [t |-> "bool", b]       True / False                              *)
(*       [t |-> "sym", s]        a str (a symbol of the expression tree)   *)
(*       [t |-> "list", items]   a list (a form of the expression tree)    *)
(*       [t |-> "none"]          None                                      *)
(*       [t |-> "closure", id, params, body, env]  a lambda made by _lambda*)
(*       [t |-> "builtin", name] a lambda of create_global_env             *)
(*   - Env objects live in a heap (a sequence); an Env is referred to by   *)
(*     its index, parent = 0 is None.  Index 1 is the global environment.  *)
(*   - An exception is a record [type, msg].                               *)
(***************************************************************************)
EXTENDS Integers, Sequences, FiniteSets, TLC

\* Bound on the nesting of evaluate calls: the host stack limit
\* (RecursionError is raised when it is exceeded).
MaxDepth == 18

----------------------------------------------------------------------------
(* Values *)

FloatV(n, d) == [t |-> "float", n |-> n, d |-> d]
IntV(n) == [t |-> "int", n |-> n]
BoolV(b) == [t |-> "bool", b |-> b]
Sym(s) == [t |-> "sym", s |-> s]
List(items) == [t |-> "list", items |-> items]
None == [t |-> "none"]
Builtin(name) == [t |-> "builtin", name |-> name]
Exc(type, msg) == [type |-> type, msg |-> msg]

\* `v is False`
IsFalse(v) == v.t = "bool" /\ v.b = FALSE

Abs(i) == IF i < 0 THEN -i ELSE i

RECURSIVE Gcd(_, _)
Gcd(a, b) == IF b = 0 THEN a ELSE Gcd(b, a % b)

\* A float value from a fraction (d # 0), in lowest terms with d > 0.
MkFloat(n, d) ==
    LET g == Gcd(Abs(n), Abs(d))
        s == IF d < 0 THEN -1 ELSE 1
    IN  FloatV((s * n) \div g, (s * d) \div g)

----------------------------------------------------------------------------
(* Text *)

IsBlankChunk(c) == c = " "

RECURSIVE lstrip(_)
lstrip(text) ==
    IF text # <<>> /\ IsBlankChunk(Head(text)) THEN lstrip(Tail(text)) ELSE text

RECURSIVE rstrip(_)
rstrip(text) ==
    IF text # <<>> /\ IsBlankChunk(text[Len(text)])
    THEN rstrip(SubSeq(text, 1, Len(text) - 1))
    ELSE text

\* str.strip()
strip(text) == rstrip(lstrip(text))

\* str.isspace(): at least one character and all of them whitespace
isspace(text) == text # <<>> /\ \A i \in DOMAIN text : IsBlankChunk(text[i])

\* str.count(c) for c a parenthesis
count(text, c) == Cardinality({i \in DOMAIN text : text[i] = c})

\* The string a text spells
RECURSIVE Join(_)
Join(text) == IF text = <<>> THEN "" ELSE Head(text) \o Join(Tail(text))

----------------------------------------------------------------------------
(* tokenize *)

\* re.sub(r'([()])', r' \1 ', s): every parenthesis gets a blank on each
\* side (the text is rebuilt by halves, which keeps the recursion shallow)
RECURSIVE padParens(_)
padParens(text) ==
    IF Len(text) = 0 THEN <<>>
    ELSE IF Len(text) = 1
         THEN (IF text[1] \in {"(", ")"} THEN <<" ", text[1], " ">> ELSE text)
         ELSE LET m == Len(text) \div 2
              IN  padParens(SubSeq(text, 1, m))
                  \o padParens(SubSeq(text, m + 1, Len(text)))

\* str.split(): the maximal runs of non-whitespace, in order, each joined
\* into one word
split(text) ==
    LET n == Len(text)
        starts == {i \in 1..n : /\ ~IsBlankChunk(text[i])
                                /\ (i = 1 \/ IsBlankChunk(text[i - 1]))}
        endOf(i) == CHOOSE j \in i..n :
                        /\ \A k \in i..j : ~IsBlankChunk(text[k])
                        /\ (j = n \/ IsBlankChunk(text[j + 1]))
        nth(k) == CHOOSE i \in starts : Cardinality({j \in starts : j < i}) = k - 1
    IN  [k \in 1..Cardinality(starts) |-> Join(SubSeq(text, nth(k), endOf(nth(k))))]

tokenize(s) == split(padParens(s))

----------------------------------------------------------------------------
(* atom, parse *)

\* The tokens float() accepts, with their values (a finite table of float
\* literals: every other token of the model raises ValueError in float()).
FloatLiterals ==
    [tok \in {"0", "1", "2", "3", "4", "5", "7", "99"} |->
        CASE tok = "0" -> 0 [] tok = "1" -> 1 [] tok = "2" -> 2
          [] tok = "3" -> 3 [] tok = "4" -> 4 [] tok = "5" -> 5
          [] tok = "7" -> 7 [] tok = "99" -> 99]

atom(token) ==
    IF token \in DOMAIN FloatLiterals THEN FloatV(FloatLiterals[token], 1)
    ELSE IF token = "#t" THEN BoolV(TRUE)
    ELSE IF token = "#f" THEN BoolV(FALSE)
    ELSE Sym(token)

ParseOk(expr, rest) == [ok |-> TRUE, expr |-> expr, rest |-> rest]
ParseErr(msg, rest) == [ok |-> FALSE, exc |-> Exc("SyntaxError", msg), rest |-> rest]

RECURSIVE parse(_)
RECURSIVE parseItems(_, _)

\* A faulty loop of parse: line 50, tokens.pop(0), is missing, so the closing
\* parenthesis stays in the token list.
parseItemsNoPop(tokens, L) ==
    IF tokens # <<>> /\ Head(tokens) # ")"
    THEN IF parse(tokens).ok
         THEN parseItems(parse(tokens).rest, Append(L, parse(tokens).expr))
         ELSE parse(tokens)
    ELSE IF tokens = <<>> \/ Head(tokens) # ")"
         THEN ParseErr("Expected ')'", tokens)
         ELSE ParseOk(List(L), tokens)

\* L.append(parse(tokens)), the call of parse having returned r
parseAppend(L, r) ==
    IF r.ok THEN parseItems(r.rest, Append(L, r.expr)) ELSE r

\* The loop of parse, lines 45-51: L is the list built so far.
parseItems(tokens, L) ==
    IF tokens # <<>> /\ Head(tokens) # ")"
    THEN parseAppend(L, parse(tokens))
    ELSE IF tokens = <<>> \/ Head(tokens) # ")"
         THEN ParseErr("Expected ')'", tokens)
         ELSE ParseOk(List(L), Tail(tokens))

\* parse(tokens): the expression, and what is left of the token list
parse(tokens) ==
    IF tokens = <<>> THEN ParseErr("Unexpected EOF while parsing", tokens)
    ELSE IF Head(tokens) = "(" THEN parseItems(Tail(tokens), <<>>)
    ELSE IF Head(tokens) = ")" THEN ParseErr("Unexpected ')'", Tail(tokens))
    ELSE ParseOk(atom(Head(tokens)), Tail(tokens))

----------------------------------------------------------------------------
(* Env *)

EmptyBindings == [s \in {} |-> None]

\* Env(bindings, parent)
Env(bindings, parent) == [bindings |-> bindings, parent |-> parent]

\* Env.find: the index of the Env of the chain from env whose bindings hold
\* var, or 0 when find raises NameError.
RECURSIVE find(_, _, _)
find(var, env, heap) ==
    IF var \in DOMAIN heap[env].bindings THEN env
    ELSE IF heap[env].parent # 0 THEN find(var, heap[env].parent, heap)
    ELSE 0

\* A faulty __setitem__: it writes into the Env of the chain that already
\* binds key (an assignment to the visible binding) and into env only when
\* no Env of the chain binds it.
setitemWhereFound(heap, env, key, value) ==
    [heap EXCEPT ![IF find(key, env, heap) = 0 THEN env
                   ELSE find(key, env, heap)].bindings = (key :> value) @@ @]

\* Env.__setitem__: self.bindings[key] = value
setitem(heap, env, key, value) ==
    [heap EXCEPT ![env].bindings = (key :> value) @@ @]

\* dict(zip(params, args)): pairs up to the shorter length, a repeated
\* parameter name keeps its last argument.
RECURSIVE zipDict(_, _)
zipDict(params, args) ==
    IF params = <<>> \/ args = <<>> THEN EmptyBindings
    ELSE LET k == IF Len(params) < Len(args) THEN Len(params) ELSE Len(args)
         IN  (params[k].s :> args[k])
             @@ zipDict(SubSeq(params, 1, k - 1), SubSeq(args, 1, k - 1))

----------------------------------------------------------------------------
(* The Python operators the builtins use *)

IsNumber(v) == v.t \in {"float", "int", "bool"}

\* The numerator and denominator of a Python number (True is 1, False is 0).
NumN(v) == IF v.t = "bool" THEN (IF v.b THEN 1 ELSE 0) ELSE v.n
NumD(v) == IF v.t = "float" THEN v.d ELSE 1

\* The result of int/bool arithmetic is an int, of arithmetic with a float a float.
MkNumber(n, d, asFloat) == IF asFloat THEN MkFloat(n, d) ELSE IntV(n)
AnyFloat(x, y) == x.t = "float" \/ y.t = "float"

Returned(val) == [ok |-> TRUE, val |-> val]
Raised(type, msg) == [ok |-> FALSE, exc |-> Exc(type, msg)]

OperandError == Raised("TypeError", "unsupported operand type(s)")
ArgCountError == Raised("TypeError", "<lambda>() called with the wrong number of positional arguments")

\* x + y
PyAdd(x, y) ==
    IF ~(IsNumber(x) /\ IsNumber(y)) THEN OperandError
    ELSE Returned(MkNumber(NumN(x) * NumD(y) + NumN(y) * NumD(x),
                           NumD(x) * NumD(y), AnyFloat(x, y)))

\* x - y
PySub(x, y) ==
    IF ~(IsNumber(x) /\ IsNumber(y)) THEN OperandError
    ELSE Returned(MkNumber(NumN(x) * NumD(y) - NumN(y) * NumD(x),
                           NumD(x) * NumD(y), AnyFloat(x, y)))

\* -x
PyNeg(x) ==
    IF ~IsNumber(x) THEN OperandError
    ELSE Returned(MkNumber(-NumN(x), NumD(x), x.t = "float"))

\* x * y
PyMul(x, y) ==
    IF ~(IsNumber(x) /\ IsNumber(y)) THEN OperandError
    ELSE Returned(MkNumber(NumN(x) * NumN(y), NumD(x) * NumD(y), AnyFloat(x, y)))

\* x / y: true division, always a float; a zero divisor raises
PyDiv(x, y) ==
    IF ~(IsNumber(x) /\ IsNumber(y)) THEN OperandError
    ELSE IF NumN(y) = 0 THEN Raised("ZeroDivisionError", "division by zero")
    ELSE Returned(MkFloat(NumN(x) * NumD(y), NumD(x) * NumN(y)))

\* x == y: numbers by value, every other object by identity; never raises
PyEq(x, y) ==
    IF IsNumber(x) /\ IsNumber(y)
    THEN Returned(BoolV(NumN(x) * NumD(y) = NumN(y) * NumD(x)))
    ELSE IF x.t # y.t THEN Returned(BoolV(FALSE))
    ELSE IF x.t = "closure" THEN Returned(BoolV(x.id = y.id))
    ELSE IF x.t = "builtin" THEN Returned(BoolV(x.name = y.name))
    ELSE Returned(BoolV(TRUE))

\* x < y, x <= y, x > y, x >= y (op names the comparison)
PyCmp(op, x, y) ==
    IF ~(IsNumber(x) /\ IsNumber(y))
    THEN Raised("TypeError", "comparison not supported between these instances")
    ELSE LET l == NumN(x) * NumD(y)
             r == NumN(y) * NumD(x)
         IN  Returned(BoolV(CASE op = "<" -> l < r
                              [] op = "<=" -> l <= r
                              [] op = ">" -> l > r
                              [] op = ">=" -> l >= r))

\* bool(x): Python truthiness
Truthy(x) ==
    CASE x.t = "bool" -> x.b
      [] x.t \in {"float", "int"} -> x.n # 0
      [] x.t = "none" -> FALSE
      [] OTHER -> TRUE

\* sum(args): 0 + args[0] + args[1] + ...; acc is the sum so far
RECURSIVE PySum(_, _)
PySum(args, acc) ==
    IF args = <<>> THEN Returned(acc)
    ELSE LET r == PyAdd(acc, Head(args))
         IN  IF r.ok THEN PySum(Tail(args), r.val) ELSE r

----------------------------------------------------------------------------
(* create_global_env: the builtin procedures *)

\* '+': lambda *args: sum(args)
BuiltinAdd(args) == PySum(args, IntV(0))

\* '-': lambda x, *ys: x - sum(ys) if ys else -x
BuiltinSub(args) ==
    IF args = <<>> THEN ArgCountError
    ELSE IF Len(args) > 1
         THEN LET s == PySum(Tail(args), IntV(0))
              IN  IF s.ok THEN PySub(Head(args), s.val) ELSE s
         ELSE PyNeg(Head(args))

\* '*': lambda *args: (args[0] if len(args) == 1 else args[0] * args[1])
BuiltinMul(args) ==
    IF Len(args) = 1 THEN Returned(args[1])
    ELSE IF Len(args) = 0 THEN Raised("IndexError", "tuple index out of range")
    ELSE PyMul(args[1], args[2])

\* '/': lambda x, y: x / y
BuiltinDiv(args) ==
    IF Len(args) # 2 THEN ArgCountError ELSE PyDiv(args[1], args[2])

\* '=': lambda x, y: x == y
BuiltinEq(args) ==
    IF Len(args) # 2 THEN ArgCountError ELSE PyEq(args[1], args[2])

\* '<=', '>=', '<', '>': lambda x, y: x <op> y
BuiltinCmp(op, args) ==
    IF Len(args) # 2 THEN ArgCountError ELSE PyCmp(op, args[1], args[2])

\* 'not': lambda x: not x
BuiltinNot(args) ==
    IF Len(args) # 1 THEN ArgCountError ELSE Returned(BoolV(~Truthy(args[1])))

BuiltinNames == {"+", "-", "*", "/", "=", "<=", ">=", "<", ">", "not"}

\* Calling the builtin procedure bound to name
ApplyBuiltin(name, args) ==
    CASE name = "+" -> BuiltinAdd(args)
      [] name = "-" -> BuiltinSub(args)
      [] name = "*" -> BuiltinMul(args)
      [] name = "/" -> BuiltinDiv(args)
      [] name = "=" -> BuiltinEq(args)
      [] name = "not" -> BuiltinNot(args)
      [] OTHER -> BuiltinCmp(name, args)

\* create_global_env(): the Env of the builtins, with no parent
create_global_env == Env([name \in BuiltinNames |-> Builtin(name)], 0)

----------------------------------------------------------------------------
(* evaluate and the special forms                                          *)
(*                                                                         *)
(* The interpreter's mutable state is threaded through the evaluation as   *)
(* st = [heap, nextId, log]: the Env objects, the identity the next        *)
(* closure object gets, and a history of what the evaluation did (closure  *)
(* and builtin calls, completed defines, and/or/if decisions).  The log is *)
(* an observer: nothing in the evaluation reads it.                        *)
(* A result is [ok |-> TRUE, val, st] or, for a raised exception,          *)
(* [ok |-> FALSE, exc, st].                                                *)

Ok(val, st) == [ok |-> TRUE, val |-> val, st |-> st]
Raise(type, msg, st) == [ok |-> FALSE, exc |-> Exc(type, msg), st |-> st]
Logged(st, event) == [st EXCEPT !.log = Append(@, event)]

\* callable(proc)
callable(v) == v.t \in {"closure", "builtin"}

RECURSIVE evaluate(_, _, _, _)
RECURSIVE evalArgs(_, _, _, _, _)
RECURSIVE andLoop(_, _, _, _, _, _)
RECURSIVE orLoop(_, _, _, _, _, _)

\* A faulty line 75: the name is bound (to None) before its value is
\* evaluated, so the binding stays when the evaluation raises.
defineBindEarly(var, env, r) ==
    IF ~r.ok THEN [r EXCEPT !.st.heap = setitem(@, env, var, None)]
    ELSE Ok(None,
            [r.st EXCEPT
               !.heap = setitem(@, env, var, r.val),
               !.log = Append(@, [ev |-> "define", env |-> env,
                                  var |-> var, val |-> r.val])])

\* Line 75, env[var] = <value>, once evaluate(value, env) has ended as r
defineBind(var, env, r) ==
    IF ~r.ok THEN r
    ELSE Ok(None,
            [r.st EXCEPT
               !.heap = setitem(@, env, var, r.val),
               !.log = Append(@, [ev |-> "define", env |-> env,
                                  var |-> var, val |-> r.val])])

\* _define
_define(expr, env, st, depth) ==
    IF Len(expr.items) # 3 \/ expr.items[2].t # "sym"
    THEN Raise("SyntaxError", "Malformed define expression", st)
    ELSE defineBind(expr.items[2].s, env,
                    evaluate(expr.items[3], env, st, depth + 1))

\* Lines 82-84, once evaluate(test, env) has ended as r
ifBranch(items, env, depth, r) ==
    IF ~r.ok THEN r
    ELSE IF ~IsFalse(r.val)
         THEN evaluate(items[3], env,
                       Logged(r.st, [ev |-> "if", test |-> r.val,
                                     branch |-> "consequent"]),
                       depth + 1)
         ELSE evaluate(items[4], env,
                       Logged(r.st, [ev |-> "if", test |-> r.val,
                                     branch |-> "alternative"]),
                       depth + 1)

\* _if
_if(expr, env, st, depth) ==
    IF Len(expr.items) # 4
    THEN Raise("SyntaxError", "Malformed if expression", st)
    ELSE ifBranch(expr.items, env, depth,
                  evaluate(expr.items[2], env, st, depth + 1))

\* A faulty _lambda: the closure keeps a copy of the Env it was made in, as
\* the Env was at that moment, and not a reference to it.
lambdaSnapshot(expr, env, st, depth) ==
    IF \/ Len(expr.items) # 3
       \/ expr.items[2].t # "list"
       \/ \E i \in DOMAIN expr.items[2].items : expr.items[2].items[i].t # "sym"
    THEN Raise("SyntaxError", "Malformed lambda expression", st)
    ELSE Ok([t |-> "closure", id |-> st.nextId, params |-> expr.items[2].items,
             body |-> expr.items[3], env |-> Len(st.heap) + 1],
            [st EXCEPT !.nextId = @ + 1, !.heap = Append(@, st.heap[env])])

\* _lambda: the closure object holds its parameters, its body and a
\* reference to the Env it was made in.
_lambda(expr, env, st, depth) ==
    IF \/ Len(expr.items) # 3
       \/ expr.items[2].t # "list"
       \/ \E i \in DOMAIN expr.items[2].items : expr.items[2].items[i].t # "sym"
    THEN Raise("SyntaxError", "Malformed lambda expression", st)
    ELSE Ok([t |-> "closure", id |-> st.nextId, params |-> expr.items[2].items,
             body |-> expr.items[3], env |-> env],
            [st EXCEPT !.nextId = @ + 1])

\* The log entry of an and/or over n operands that evaluated vals
Junction(ev, n, vals, ok, val) ==
    [ev |-> ev, n |-> n, vals |-> vals, ok |-> ok, val |-> val]

\* A faulty body of the for loop of _and: the test of line 103 is missing,
\* so the loop goes on after an operand that is False.
andStepNoShortCircuit(args, env, depth, vals, r) ==
    IF ~r.ok
    THEN [r EXCEPT !.st = Logged(@, Junction("and", Len(args) + Len(vals) + 1,
                                             vals, FALSE, None))]
    ELSE andLoop(args, env, r.st, depth, r.val, Append(vals, r.val))

\* The body of the for loop of _and, once evaluate(arg, env) has ended as r
\* (args are the operands after arg, vals the values before it)
andStep(args, env, depth, vals, r) ==
    IF ~r.ok
    THEN [r EXCEPT !.st = Logged(@, Junction("and", Len(args) + Len(vals) + 1,
                                             vals, FALSE, None))]
    ELSE IF IsFalse(r.val)
         THEN Ok(BoolV(FALSE),
                 Logged(r.st, Junction("and", Len(args) + Len(vals) + 1,
                                       Append(vals, r.val), TRUE, BoolV(FALSE))))
         ELSE andLoop(args, env, r.st, depth, r.val, Append(vals, r.val))

\* The for loop of _and over the operands not yet evaluated; val is the
\* last value, vals the operand values so far.
andLoop(args, env, st, depth, val, vals) ==
    IF args = <<>>
    THEN Ok(val, Logged(st, Junction("and", Len(vals), vals, TRUE, val)))
    ELSE andStep(Tail(args), env, depth, vals,
                 evaluate(Head(args), env, st, depth + 1))

\* _and
_and(expr, env, st, depth) ==
    IF Len(expr.items) = 1
    THEN Ok(BoolV(TRUE), Logged(st, Junction("and", 0, <<>>, TRUE, BoolV(TRUE))))
    ELSE andLoop(Tail(expr.items), env, st, depth, BoolV(TRUE), <<>>)

\* The body of the for loop of _or, once evaluate(arg, env) has ended as r
orStep(args, env, depth, vals, r) ==
    IF ~r.ok
    THEN [r EXCEPT !.st = Logged(@, Junction("or", Len(args) + Len(vals) + 1,
                                             vals, FALSE, None))]
    ELSE IF ~IsFalse(r.val)
         THEN Ok(r.val,
                 Logged(r.st, Junction("or", Len(args) + Len(vals) + 1,
                                       Append(vals, r.val), TRUE, r.val)))
         ELSE orLoop(args, env, r.st, depth, r.val, Append(vals, r.val))

\* The for loop of _or
orLoop(args, env, st, depth, val, vals) ==
    IF args = <<>>
    THEN Ok(val, Logged(st, Junction("or", Len(vals), vals, TRUE, val)))
    ELSE orStep(Tail(args), env, depth, vals,
                evaluate(Head(args), env, st, depth + 1))

\* _or
_or(expr, env, st, depth) ==
    IF Len(expr.items) = 1
    THEN Ok(BoolV(FALSE), Logged(st, Junction("or", 0, <<>>, TRUE, BoolV(FALSE))))
    ELSE orLoop(Tail(expr.items), env, st, depth, BoolV(FALSE), <<>>)

\* special_forms
special_forms == {"if", "lambda", "and", "or"}

\* special_forms[form](expr, env)
SpecialForm(form, expr, env, st, depth) ==
    CASE form = "if" -> _if(expr, env, st, depth)
      [] form = "lambda" -> _lambda(expr, env, st, depth)
      [] form = "and" -> _and(expr, env, st, depth)
      [] form = "or" -> _or(expr, env, st, depth)

\* Env(dict(zip(params, args)), env) joins the heap as its last object
NewFrame(proc, args, st) ==
    [st EXCEPT !.heap = Append(@, Env(zipDict(proc.params, args), proc.env)),
               !.log = Append(@, [ev |-> "call", np |-> Len(proc.params),
                                  na |-> Len(args), frame |-> Len(st.heap) + 1])]

\* The closure made at line 94, called with args:
\*   evaluate(body, Env(dict(zip(params, args)), env))
CallClosure(proc, args, st, depth) ==
    evaluate(proc.body, Len(st.heap) + 1, NewFrame(proc, args, st), depth + 1)

\* What a builtin's call that ended as r leaves
builtinResult(proc, args, st, r) ==
    IF r.ok
    THEN Ok(r.val, Logged(st, [ev |-> "builtin", name |-> proc.name,
                               args |-> args, ok |-> TRUE, val |-> r.val]))
    ELSE Raise(r.exc.type, r.exc.msg,
               Logged(st, [ev |-> "builtin", name |-> proc.name,
                           args |-> args, ok |-> FALSE, val |-> None]))

\* A builtin of create_global_env, called with args
CallBuiltin(proc, args, st) ==
    builtinResult(proc, args, st, ApplyBuiltin(proc.name, args))

\* proc(*args)
Call(proc, args, st, depth) ==
    IF proc.t = "closure" THEN CallClosure(proc, args, st, depth)
    ELSE CallBuiltin(proc, args, st)

\* The list comprehension of line 144 after evaluate(arg, env) ended as r
argsStep(exprs, env, depth, acc, r) ==
    IF ~r.ok THEN r
    ELSE evalArgs(exprs, env, r.st, depth, Append(acc, r.val))

\* [evaluate(arg, env) for arg in expr[1:]]: left to right, acc the values
\* so far; the result's val is the argument list.
evalArgs(exprs, env, st, depth, acc) ==
    IF exprs = <<>> THEN Ok(acc, st)
    ELSE argsStep(Tail(exprs), env, depth, acc,
                  evaluate(Head(exprs), env, st, depth + 1))

\* Line 145, once the arguments were evaluated as a
applyCall(proc, depth, a) ==
    IF ~a.ok THEN a ELSE Call(proc, a.val, a.st, depth)

\* Lines 142-145, once evaluate(form, env) has ended as p
applyProc(expr, env, depth, p) ==
    IF ~p.ok THEN p
    ELSE IF ~callable(p.val)
         THEN Raise("TypeError", "Procedure is not callable", p.st)
         ELSE applyCall(p.val, depth,
                        evalArgs(Tail(expr.items), env, p.st, depth, <<>>))

\* General application, lines 141-145
Apply(expr, env, st, depth) ==
    applyProc(expr, env, depth, evaluate(Head(expr.items), env, st, depth + 1))

\* env.find(expr)[expr], e the index find returns
lookupIn(var, e, st) ==
    IF e = 0
    THEN Raise("NameError", "Variable '" \o var \o "' not found", st)
    ELSE Ok(st.heap[e].bindings[var], st)

Lookup(var, env, st) == lookupIn(var, find(var, env, st.heap), st)

\* Lines 134-145: the dispatch on the head of a non-empty list
Dispatch(form, expr, env, st, depth) ==
    CASE form.t = "sym" /\ form.s = "define" -> _define(expr, env, st, depth)
      [] form.t = "sym" /\ form.s # "define" /\ form.s \in special_forms ->
            SpecialForm(form.s, expr, env, st, depth)
      [] OTHER -> Apply(expr, env, st, depth)

\* evaluate(expr, env); depth counts the evaluate calls in progress
evaluate(expr, env, st, depth) ==
    CASE depth > MaxDepth ->
            Raise("RecursionError", "maximum recursion depth exceeded", st)
      [] depth <= MaxDepth /\ expr.t \in {"float", "bool"} -> Ok(expr, st)
      [] depth <= MaxDepth /\ expr.t = "sym" -> Lookup(expr.s, env, st)
      [] depth <= MaxDepth /\ expr.t = "list" /\ expr.items = <<>> ->
            Raise("SyntaxError", "Malformed expression: []", st)
      [] depth <= MaxDepth /\ expr.t = "list" /\ expr.items # <<>> ->
            Dispatch(Head(expr.items), expr, env, st, depth)

----------------------------------------------------------------------------
(* sprint *)

\* The line sprint(value) prints.  A float with an integral value prints as
\* "<int>.0"; the repr of any other float is written here as its exact
\* ratio "n/d"; a procedure prints as "<function>".
sprint(value) ==
    CASE value.t = "bool" -> IF value.b THEN "#t" ELSE "#f"
      [] value.t = "float" ->
            IF value.d = 1 THEN ToString(value.n) \o ".0"
            ELSE ToString(value.n) \o "/" \o ToString(value.d)
      [] value.t = "int" -> ToString(value.n)
      [] OTHER -> "<function>"

----------------------------------------------------------------------------
(* The drivers: main, repl_mode, file_mode *)

VARIABLES
    mode,           \* "repl" or "file": whether sys.argv names a file
    status,         \* "start", "running", "exited" or "crashed" (an uncaught exception)
    heap,           \* the Env objects; heap[1] is global_env
    nextId,         \* the identity of the next closure object
    out,            \* the lines printed on standard output
    source_buffer,  \* file_mode's source_buffer
    pending,        \* the opening lines of the input not yet read
    nread,          \* how many lines were read after the opening lines
    log,            \* what the last evaluation did
    last,           \* the last driver step: what was submitted and what came of it
    tokens,         \* a token list handed to parse
    forms,          \* the results of the calls of parse on it so far
    given           \* the token list as it was before the first call

vars == <<mode, status, heap, nextId, out, source_buffer, pending, nread, log,
          last, tokens, forms, given>>
parseVars == <<tokens, forms, given>>

\* Bound on the number of input lines a run reads after the opening lines.
MaxLines == 2

\* sys.argv[1]
filename == "program.ss"

\* (define x 1)
DefineX1 ==
    <<"(", "define", " ", "x", " ", "1", ")">>

\* (define x 2)
DefineX2 ==
    <<"(", "define", " ", "x", " ", "2", ")">>

\* (define f (lambda () x))
DefineF ==
    <<"(", "define", " ", "f", " ", "(", "lambda", " ", "(", ")", " ", "x",
      ")", ")">>

\* (f)
CallF ==
    <<"(", "f", ")">>

\* ((lambda (x) (and (define f x) x)) 99)
ShadowDefine ==
    <<"(", "(", "lambda", " ", "(", "x", ")", " ", "(", "and", " ", "(",
      "define", " ", "f", " ", "x", ")", " ", "x", ")", ")", " ", "99", ")">>

\* (and #f (/ 1 0))
AndShort ==
    <<"(", "and", " ", "#f", " ", "(", "/", " ", "1", " ", "0", ")", ")">>

\* (or #t (/ 1 0))
OrShort ==
    <<"(", "or", " ", "#t", " ", "(", "/", " ", "1", " ", "0", ")", ")">>

\* (and (define z 1) (define x nosuch) (define z 2))
DefineFail ==
    <<"(", "and", " ", "(", "define", " ", "z", " ", "1", ")", " ", "(",
      "define", " ", "x", " ", "nosuch", ")", " ", "(", "define", " ", "z",
      " ", "2", ")", ")">>

\* ((lambda (a x) x) 1)
FewArgs ==
    <<"(", "(", "lambda", " ", "(", "a", " ", "x", ")", " ", "x", ")", " ",
      "1", ")">>

\* (* (+ #t 1) 3 4)
MulBool ==
    <<"(", "*", " ", "(", "+", " ", "#t", " ", "1", ")", " ", "3", " ", "4",
      ")">>

\* (not 0)
NotZero ==
    <<"(", "not", " ", "0", ")">>

\* (/ 1 0)
DivZero ==
    <<"(", "/", " ", "1", " ", "0", ")">>

\* (define square (lambda (x) (* x x))) (square 5)
TwoForms ==
    <<"(", "define", " ", "square", " ", "(", "lambda", " ", "(", "x", ")",
      " ", "(", "*", " ", "x", " ", "x", ")", ")", ")", " ", "(", "square",
      " ", "5", ")">>

\* (define fact (lambda (n) (if (<= n 1) 1 (* n (fact (- n 1))))))
DefineFact ==
    <<"(", "define", " ", "fact", " ", "(", "lambda", " ", "(", "n", ")",
      " ", "(", "if", " ", "(", "<=", " ", "n", " ", "1", ")", " ", "1", " ",
      "(", "*", " ", "n", " ", "(", "fact", " ", "(", "-", " ", "n", " ",
      "1", ")", ")", ")", ")", ")", ")">>

\* (fact 5)
CallFact ==
    <<"(", "fact", " ", "5", ")">>

\* a blank line
Blank ==
    <<" ", " ">>

\* ; expected: 3.0
Comment ==
    <<";", " ", "expected:", " ", "3.0">>

\*  exit
Exit ==
    <<" ", "exit">>

\* (+ 1
OpenSum ==
    <<"(", "+", " ", "1">>

\*   2)
CloseSum ==
    <<" ", " ", "2", ")">>


Lines ==
    {DefineX1,
     DefineX2,
     DefineF,
     CallF,
     ShadowDefine,
     AndShort,
     OrShort,
     DefineFail,
     FewArgs,
     MulBool,
     NotZero,
     DivZero,
     TwoForms,
     DefineFact,
     CallFact,
     Blank,
     Comment,
     Exit,
     OpenSum,
     CloseSum}

\* The opening lines an input may have; the lines after them are arbitrary.
Openings == {<<>>, <<DefineX1, DefineF>>, <<DefineFact>>}

\* except (SyntaxError, NameError, TypeError, IndexError)
CaughtTypes == {"SyntaxError", "NameError", "TypeError", "IndexError"}

NoExc == Exc("", "")

\* What evaluate(parse(tokens), env) leaves: p is what parse returned, r
\* what evaluate did with its expression.  evaluated lists the expressions
\* that were handed to evaluate.
outcome(p, st, r) ==
    IF ~p.ok
    THEN [ok |-> FALSE, val |-> None, exc |-> p.exc, st |-> st,
          evaluated |-> <<>>]
    ELSE [ok |-> r.ok, val |-> IF r.ok THEN r.val ELSE None,
          exc |-> IF r.ok THEN NoExc ELSE r.exc, st |-> r.st,
          evaluated |-> <<p.expr>>]

evaluateParsed(p, st) ==
    outcome(p, st, IF p.ok THEN evaluate(p.expr, 1, st, 1) ELSE p)

\* evaluate(parse(tokenize(text)), env): one call of parse, one of evaluate
Submit(text, st) == evaluateParsed(parse(tokenize(text)), st)

\* What the try statement around Submit prints
Printed(r) ==
    IF r.ok THEN (IF r.val.t # "none" THEN <<sprint(r.val)>> ELSE <<>>)
    ELSE IF r.exc.type \in CaughtTypes THEN <<"Error: " \o r.exc.msg>>
    ELSE <<>>

\* The driver's state after the try statement, Submit(text) having ended as r
Handled(text, r) ==
    /\ heap' = r.st.heap
    /\ nextId' = r.st.nextId
    /\ log' = r.st.log
    /\ out' = out \o Printed(r)
    /\ status' = IF ~r.ok /\ r.exc.type \notin CaughtTypes
                 THEN "crashed" ELSE "running"
    /\ last' = [op |-> "eval", text |-> text, pre |-> heap, ok |-> r.ok,
                val |-> r.val, exc |-> r.exc, evaluated |-> r.evaluated]

\* result = evaluate(parse(tokenize(text)), env) inside its try statement
Evaluated(text) ==
    Handled(text, Submit(text, [heap |-> heap, nextId |-> nextId, log |-> <<>>]))

Idle(op, text) ==
    /\ UNCHANGED <<heap, nextId, out>>
    /\ log' = <<>>
    /\ last' = [op |-> op, text |-> text, pre |-> heap, ok |-> TRUE,
                val |-> None, exc |-> NoExc, evaluated |-> <<>>]

\* line is the next line of the input
Reads(line) ==
    IF pending # <<>>
    THEN line = Head(pending) /\ pending' = Tail(pending) /\ UNCHANGED nread
    ELSE nread < MaxLines /\ nread' = nread + 1 /\ UNCHANGED pending

\* main: no file argument, repl_mode starts
MainRepl ==
    /\ status = "start" /\ mode = "repl"
    /\ status' = "running"
    /\ UNCHANGED <<mode, heap, nextId, out, source_buffer, pending, nread, log, last>>
    /\ UNCHANGED parseVars

\* main: file_mode opens the file
MainFile ==
    /\ status = "start" /\ mode = "file"
    /\ status' = "running"
    /\ source_buffer' = <<>>
    /\ UNCHANGED <<mode, heap, nextId, out, pending, nread, log, last>>
    /\ UNCHANGED parseVars

\* file_mode: open raises FileNotFoundError
FileNotFound ==
    /\ status = "start" /\ mode = "file"
    /\ status' = "exited"
    /\ out' = Append(out, "Error: File '" \o filename \o "' not found.")
    /\ UNCHANGED <<mode, heap, nextId, source_buffer, pending, nread, log, last>>
    /\ UNCHANGED parseVars

\* Lines 211-218
ReplStep(line, stripped) ==
    IF stripped = <<>>
    THEN Idle("skip", line) /\ status' = "running"
    ELSE IF Join(stripped) = "exit"
    THEN Idle("exit", line) /\ status' = "exited"
    ELSE Evaluated(line)

\* One turn of the loop of repl_mode with input() returning line
ReplLine(line) ==
    /\ status = "running" /\ mode = "repl"
    /\ Reads(line)
    /\ ReplStep(line, strip(line))
    /\ UNCHANGED <<mode, source_buffer>>
    /\ UNCHANGED parseVars

\* repl_mode: input() raises EOFError
ReplEOF ==
    /\ status = "running" /\ mode = "repl"
    /\ status' = "exited"
    /\ out' = out \o <<"", "Exiting...">>
    /\ log' = <<>>
    /\ last' = [op |-> "eof", text |-> <<>>, pre |-> heap, ok |-> TRUE,
                val |-> None, exc |-> NoExc, evaluated |-> <<>>]
    /\ UNCHANGED <<mode, heap, nextId, source_buffer, pending, nread>>
    /\ UNCHANGED parseVars

\* The test of line 194 on the buffer
balanced(open_parens, close_parens, buffer) ==
    \/ open_parens > 0 /\ open_parens = close_parens
    \/ open_parens = 0 /\ close_parens = 0 /\ ~isspace(buffer)

Complete(buffer) == balanced(count(buffer, "("), count(buffer, ")"), buffer)

\* Lines 189-202: the stripped line joins the buffer, which is evaluated
\* and emptied when it is complete
FileBuffer(line, buffer) ==
    IF Complete(buffer)
    THEN Evaluated(buffer) /\ source_buffer' = <<>>
    ELSE Idle("buffered", line) /\ status' = "running"
         /\ source_buffer' = buffer

\* Lines 186-202
FileStep(line, stripped_line) ==
    IF stripped_line = <<>> \/ Head(stripped_line) = ";"
    THEN Idle("skip", line) /\ status' = "running" /\ UNCHANGED source_buffer
    ELSE FileBuffer(line, source_buffer \o <<" ">> \o stripped_line)

\* One turn of the loop of file_mode over the file's next line
FileLine(line) ==
    /\ status = "running" /\ mode = "file"
    /\ Reads(line)
    /\ FileStep(line, strip(line))
    /\ UNCHANGED mode
    /\ UNCHANGED parseVars

\* file_mode: the file has no more lines
FileEOF ==
    /\ status = "running" /\ mode = "file"
    /\ status' = "exited"
    /\ Idle("eof", <<>>)
    /\ UNCHANGED <<mode, source_buffer, pending, nread>>
    /\ UNCHANGED parseVars

Init ==
    /\ mode \in {"repl", "file"}
    /\ status = "start"
    /\ heap = <<create_global_env>>
    /\ nextId = 1
    /\ out = <<>>
    /\ source_buffer = <<>>
    /\ pending \in Openings
    /\ nread = 0
    /\ log = <<>>
    /\ last = [op |-> "init", text |-> <<>>, pre |-> <<create_global_env>>,
               ok |-> TRUE, val |-> None, exc |-> NoExc, evaluated |-> <<>>]
    /\ tokens = <<>>
    /\ forms = <<>>
    /\ given = <<>>

Next ==
    \/ MainRepl
    \/ MainFile
    \/ FileNotFound
    \/ \E line \in Lines : ReplLine(line)
    \/ ReplEOF
    \/ \E line \in Lines : FileLine(line)
    \/ FileEOF

Spec == Init /\ [][Next]_vars

----------------------------------------------------------------------------
(* parse on its own: a caller that calls parse on one token list again and *)
(* again, as long as tokens remain and no call has raised                  *)

\* Bound on the length of the token lists handed to parse.
MaxTokens == 5

\* The tokens of the lists handed to parse
TokenAlphabet == {"(", ")", "x", "2"}

TokenLists == UNION {[1..n -> TokenAlphabet] : n \in 0..MaxTokens}

\* What a call of parse on from returned
ParseRecord(from, r) ==
    [from |-> from, ok |-> r.ok, expr |-> IF r.ok THEN r.expr ELSE None,
     rest |-> r.rest]

ParseNext ==
    /\ tokens # <<>>
    /\ IF forms = <<>> THEN TRUE ELSE forms[Len(forms)].ok
    /\ forms' = Append(forms, ParseRecord(tokens, parse(tokens)))
    /\ tokens' = parse(tokens).rest
    /\ UNCHANGED <<mode, status, heap, nextId, out, source_buffer, pending,
                   nread, log, last, given>>

InitParse ==
    /\ mode = "repl"
    /\ status = "start"
    /\ heap = <<create_global_env>>
    /\ nextId = 1
    /\ out = <<>>
    /\ source_buffer = <<>>
    /\ pending = <<>>
    /\ nread = 0
    /\ log = <<>>
    /\ last = [op |-> "init", text |-> <<>>, pre |-> <<create_global_env>>,
               ok |-> TRUE, val |-> None, exc |-> NoExc, evaluated |-> <<>>]
    /\ given \in TokenLists
    /\ tokens = given
    /\ forms = <<>>

SpecParse == InitParse /\ [][ParseNext]_vars

----------------------------------------------------------------------------
(* Properties *)

\* The last driver step evaluated the text of line (the buffer of file_mode
\* holds a blank before the text)
Unit(line) == last.op = "eval" /\ lstrip(last.text) = line

Bound(h, e, s) == s \in DOMAIN h[e].bindings

\* Env e binds s after the last step as it did before (or not at all, both times)
Same(e, s) ==
    \/ ~Bound(last.pre, e, s) /\ ~Bound(heap, e, s)
    \/ /\ Bound(last.pre, e, s) /\ Bound(heap, e, s)
       /\ heap[e].bindings[s] = last.pre[e].bindings[s]

Names(e) == DOMAIN heap[e].bindings \cup DOMAIN last.pre[e].bindings

\* The defines of s in Env e that the last step completed
Defines(e, s) ==
    {i \in DOMAIN log : log[i].ev = "define" /\ log[i].env = e /\ log[i].var = s}

MaxOf(S) == CHOOSE m \in S : \A k \in S : k <= m

\* name is bound in the global environment h[1] to a closure without
\* parameters whose body is body
IsGlobalThunk(h, name, body) ==
    /\ Bound(h, 1, name)
    /\ h[1].bindings[name].t = "closure"
    /\ h[1].bindings[name].params = <<>>
    /\ h[1].bindings[name].body = body

\* The lambda expression of the line (define <name> (lambda ...))
LambdaOf(line) == parse(tokenize(line)).expr.items[3]

\* name is bound in the global environment h[1] to a closure of lambda
IsGlobalClosure(h, name, lambda) ==
    /\ Bound(h, 1, name)
    /\ h[1].bindings[name].t = "closure"
    /\ h[1].bindings[name].params = lambda.items[2].items
    /\ h[1].bindings[name].body = lambda.items[3]

\* C1: a closure called with a number of arguments that is not its number
\* of parameters fails before its body is evaluated: the evaluation raises
\* and no call frame is made.
C1_ArityChecked ==
    \A i \in DOMAIN log :
        (log[i].ev = "call" /\ log[i].np # log[i].na)
            => (~last.ok /\ log[i].frame = 0)

\* After (define x 1), ((lambda (a x) x) 1) has made a call frame that binds
\* a only, found x in the global environment and printed 1.0.
C1_Witness ==
    /\ Unit(FewArgs)
    /\ last.ok /\ last.val = FloatV(1, 1)
    /\ \E i \in DOMAIN log :
        log[i].ev = "call" /\ log[i].np = 2 /\ log[i].na = 1 /\ log[i].frame > 1
    /\ out # <<>> /\ out[Len(out)] = "1.0"

\* C2: a closure sees its defining environment as it is when the closure is
\* called.  With f bound at top level to (lambda () x), the call (f) yields
\* what x is bound to in the global environment at the time of the call,
\* whatever it was bound to (or not) when f was defined, and raises NameError
\* when x is not bound then; with fact bound at top level to the recursive
\* factorial, (fact 5) yields 120.
C2_CaptureByReference ==
    /\ (Unit(CallF) /\ IsGlobalThunk(last.pre, "f", Sym("x")))
        => IF Bound(last.pre, 1, "x")
           THEN last.ok /\ last.val = last.pre[1].bindings["x"]
           ELSE ~last.ok /\ last.exc.type = "NameError"
    /\ (Unit(CallFact) /\ IsGlobalClosure(last.pre, "fact", LambdaOf(DefineFact)))
        => last.ok /\ last.val = FloatV(120, 1)

\* (define x 1) (define f (lambda () x)) (define x 2) (f) has printed 2.0:
\* f was made by the opening lines, when x was 1, and the two lines after
\* them were (define x 2) and (f).
C2_Witness ==
    /\ Unit(CallF)
    /\ IsGlobalThunk(last.pre, "f", Sym("x"))
    /\ nread = 2 /\ nextId = 2
    /\ Bound(last.pre, 1, "x") /\ last.pre[1].bindings["x"] = FloatV(2, 1)
    /\ last.ok /\ last.val = FloatV(2, 1)
    /\ out = <<"2.0">>

\* C3: define and the binding of parameters write only into the current
\* environment.  Over a driver step, an Env that existed before the step
\* keeps its parent and changes only at the names that a define run in that
\* very Env has bound; so ((lambda (x) (and (define f x) x)) 99) yields 99
\* and leaves the global environment, x and f included, as it was.
C3_WritesCurrentEnvOnly ==
    /\ last.op = "eval" =>
        \A e \in DOMAIN last.pre :
            /\ heap[e].parent = last.pre[e].parent
            /\ \A s \in Names(e) : Same(e, s) \/ Defines(e, s) # {}
    /\ Unit(ShadowDefine) =>
        /\ last.ok /\ last.val = FloatV(99, 1)
        /\ heap[1] = last.pre[1]

\* After (define x 1) (define f ...), the call of (lambda (x) ...) with 99,
\* whose body defines f: 99 is the result and the global x is still 1.
C3_Witness ==
    /\ Unit(ShadowDefine)
    /\ Bound(last.pre, 1, "x") /\ last.pre[1].bindings["x"] = FloatV(1, 1)
    /\ Bound(last.pre, 1, "f")
    /\ last.val = FloatV(99, 1)
    /\ heap[1].bindings["x"] = FloatV(1, 1)
    /\ \E i \in DOMAIN log : log[i].ev = "define" /\ log[i].var = "f" /\ log[i].env > 1

\* What an and over e.n operands that evaluated e.vals, in order, must be
AndRule(e) ==
    /\ Len(e.vals) <= e.n
    /\ \A i \in 1..(Len(e.vals) - 1) : ~IsFalse(e.vals[i])
    /\ e.ok =>
        IF e.vals # <<>> /\ IsFalse(e.vals[Len(e.vals)])
        THEN IsFalse(e.val)
        ELSE /\ Len(e.vals) = e.n
             /\ e.val = IF e.n = 0 THEN BoolV(TRUE) ELSE e.vals[e.n]
    /\ ~e.ok => Len(e.vals) < e.n /\ \A i \in DOMAIN e.vals : ~IsFalse(e.vals[i])

\* What an or over e.n operands that evaluated e.vals, in order, must be
OrRule(e) ==
    /\ Len(e.vals) <= e.n
    /\ \A i \in 1..(Len(e.vals) - 1) : IsFalse(e.vals[i])
    /\ e.ok =>
        IF e.vals # <<>> /\ ~IsFalse(e.vals[Len(e.vals)])
        THEN e.val = e.vals[Len(e.vals)]
        ELSE Len(e.vals) = e.n /\ IsFalse(e.val)
    /\ ~e.ok => Len(e.vals) < e.n /\ \A i \in DOMAIN e.vals : IsFalse(e.vals[i])

\* C4: and/or evaluate their operands from the left and stop at the deciding
\* one: the operands an and has evaluated are all not False but possibly the
\* last, which then makes the result False, and otherwise the result is the
\* last operand's value (True without operands); dually for or.  No operand
\* after the deciding one is evaluated: (and #f (/ 1 0)) and (or #t (/ 1 0))
\* end without an error and without a call of /.
C4_ShortCircuit ==
    /\ \A i \in DOMAIN log :
        /\ log[i].ev = "and" => AndRule(log[i])
        /\ log[i].ev = "or" => OrRule(log[i])
    /\ Unit(AndShort) =>
        /\ last.ok /\ IsFalse(last.val) /\ status = "running"
        /\ \A i \in DOMAIN log : log[i].ev # "builtin"
    /\ Unit(OrShort) =>
        /\ last.ok /\ last.val = BoolV(TRUE) /\ status = "running"
        /\ \A i \in DOMAIN log : log[i].ev # "builtin"

\* (and #f (/ 1 0)) was evaluated: one operand, False, and #f was printed.
C4_Witness ==
    /\ Unit(AndShort)
    /\ \E i \in DOMAIN log :
        log[i].ev = "and" /\ log[i].n = 2 /\ log[i].vals = <<BoolV(FALSE)>>
    /\ out # <<>> /\ out[Len(out)] = "#f"

\* C5: when the evaluation of a top-level form fails, the global environment
\* is the one before the form with the bindings of the defines that the form
\* completed in it, the last one of a name winning, and nothing else.  In
\* (and (define z 1) (define x nosuch) (define z 2)) the define of x fails:
\* x is bound as before, or still unbound, and z is 1.
C5_FailureKeepsCompletedDefines ==
    /\ (last.op = "eval" /\ ~last.ok) =>
        \A s \in Names(1) :
            IF Defines(1, s) = {} THEN Same(1, s)
            ELSE /\ Bound(heap, 1, s)
                 /\ heap[1].bindings[s] = log[MaxOf(Defines(1, s))].val
    /\ Unit(DefineFail) =>
        /\ ~last.ok /\ last.exc.type = "NameError"
        /\ Same(1, "x")
        /\ Bound(heap, 1, "z") /\ heap[1].bindings["z"] = FloatV(1, 1)

\* (and (define z 1) (define x nosuch) (define z 2)) has failed with x bound
\* to 2 before it: x is still 2, z is 1.
C5_Witness ==
    /\ Unit(DefineFail)
    /\ ~last.ok
    /\ Bound(last.pre, 1, "x") /\ ~Bound(last.pre, 1, "z")
    /\ heap[1].bindings["x"] = FloatV(2, 1)
    /\ heap[1].bindings["z"] = FloatV(1, 1)

\* C6: whatever fails in parse or evaluate, the driver prints one line
\* "Error: <message>" and keeps running.
C6_DriverSurvivesEveryFailure ==
    (last.op = "eval" /\ ~last.ok) =>
        /\ status = "running"
        /\ out # <<>> /\ out[Len(out)] = "Error: " \o last.exc.msg

\* (/ 1 0) has raised ZeroDivisionError, which no except clause of the
\* drivers names: nothing was printed and the run has ended.
C6_Witness ==
    /\ Unit(DivZero)
    /\ ~last.ok /\ last.exc.type = "ZeroDivisionError"
    /\ status = "crashed"
    /\ out = <<>>

\* The argument counts the specification lets a builtin take
SupportedCount(name, n) ==
    CASE name = "+" -> TRUE
      [] name = "-" -> n >= 1
      [] name = "*" -> n \in {1, 2}
      [] name = "not" -> n = 1
      [] OTHER -> n = 2

\* C7: every builtin fails when it is called with an argument count it does
\* not support, and every arithmetic or comparison builtin fails when an
\* argument is not a Number.
C7_BuiltinsCheckTheirArguments ==
    \A i \in DOMAIN log :
        (/\ log[i].ev = "builtin"
         /\ \/ ~SupportedCount(log[i].name, Len(log[i].args))
            \/ /\ log[i].name # "not"
               /\ \E k \in DOMAIN log[i].args : log[i].args[k].t # "float")
            => ~log[i].ok

\* (* (+ #t 1) 3 4) has printed 6.0: + took the Boolean as 1, * took three
\* operands and multiplied the first two.
C7_Witness ==
    /\ Unit(MulBool)
    /\ last.ok /\ last.val = FloatV(6, 1)
    /\ out # <<>> /\ out[Len(out)] = "6.0"

\* C8: (not v) is True exactly when v is the Boolean False, which is exactly
\* when (if v c a) takes the alternative.
C8_NotAgreesWithIf ==
    \A i \in DOMAIN log :
        (log[i].ev = "builtin" /\ log[i].name = "not" /\ Len(log[i].args) = 1)
            => log[i].ok /\ log[i].val = BoolV(IsFalse(log[i].args[1]))

\* (not 0) has printed #t.
C8_Witness ==
    /\ Unit(NotZero)
    /\ last.ok /\ last.val = BoolV(TRUE)
    /\ out # <<>> /\ out[Len(out)] = "#t"

\* The number of "(" minus the number of ")" among the first k tokens
Nesting(ts, k) ==
    Cardinality({i \in 1..k : ts[i] = "("}) - Cardinality({i \in 1..k : ts[i] = ")"})

\* The first complete form of ts ends at token k: an atom, or a parenthesis
\* group that closes at k and not before
FormEndsAt(ts, k) ==
    /\ k \in 1..Len(ts)
    /\ ts[1] # ")"
    /\ Nesting(ts, k) = 0
    /\ \A j \in 1..(k - 1) : Nesting(ts, j) > 0

StartsWithForm(ts) == \E k \in 1..Len(ts) : FormEndsAt(ts, k)
FormEnd(ts) == CHOOSE k \in 1..Len(ts) : FormEndsAt(ts, k)

Open == [t |-> "("]
Close == [t |-> ")"]

\* The leaves of an expression tree from left to right, every list between
\* the marks Open and Close
RECURSIVE Fringe(_)
RECURSIVE FringeOfAll(_)
Fringe(expr) ==
    IF expr.t = "list" THEN <<Open>> \o FringeOfAll(expr.items) \o <<Close>>
    ELSE <<expr>>
FringeOfAll(items) ==
    IF items = <<>> THEN <<>>
    ELSE Fringe(Head(items)) \o FringeOfAll(Tail(items))

\* The tokens, each as the mark or the atom it stands for
Read(ts) ==
    [i \in 1..Len(ts) |->
        IF ts[i] = "(" THEN Open ELSE IF ts[i] = ")" THEN Close ELSE atom(ts[i])]

\* C9: on a token list that starts with a complete form, parse returns the
\* tree of that form (its leaves and parentheses, in order, are the form's
\* tokens), removes exactly the form's tokens and leaves the other tokens as
\* they were; called again and again, it returns the forms in source order
\* (the forms returned so far, followed by the tokens left, read as the
\* token list given).
C9_ParseTakesOneForm ==
    /\ \A i \in DOMAIN forms :
        StartsWithForm(forms[i].from) =>
            /\ forms[i].ok
            /\ Fringe(forms[i].expr)
                 = Read(SubSeq(forms[i].from, 1, FormEnd(forms[i].from)))
            /\ forms[i].rest
                 = SubSeq(forms[i].from, FormEnd(forms[i].from) + 1,
                          Len(forms[i].from))
    /\ (\A i \in DOMAIN forms : forms[i].ok) =>
        FringeOfAll([i \in DOMAIN forms |-> forms[i].expr]) \o Read(tokens)
            = Read(given)

\* Two calls of parse on ( ( ) ) 2: the nested list, then the atom.
C9_Witness ==
    /\ given = <<"(", "(", ")", ")", "2">>
    /\ Len(forms) = 2
    /\ forms[1].ok /\ forms[1].rest = <<"2">>
    /\ forms[1].expr = List(<<List(<<>>)>>)
    /\ forms[2].ok /\ forms[2].expr = FloatV(2, 1)
    /\ tokens = <<>>

\* The top-level forms of a token list, when parse returns each of them
RECURSIVE AllForms(_)
AllForms(ts) ==
    IF ts = <<>> \/ ~parse(ts).ok THEN <<>>
    ELSE <<parse(ts).expr>> \o AllForms(parse(ts).rest)

RECURSIVE AllParse(_)
AllParse(ts) == ts = <<>> \/ (parse(ts).ok /\ AllParse(parse(ts).rest))

\* C10: a driver evaluates every top-level form of the text it submits, in
\* source order.
C10_EveryFormEvaluated ==
    (last.op = "eval" /\ last.ok /\ AllParse(tokenize(last.text)))
        => last.evaluated = AllForms(tokenize(last.text))

\* (define square (lambda (x) (* x x))) (square 5) was submitted as one
\* unit: the define was evaluated, (square 5) was not, nothing was printed.
C10_Witness ==
    /\ Unit(TwoForms)
    /\ last.ok
    /\ Len(AllForms(tokenize(last.text))) = 2
    /\ Len(last.evaluated) = 1
    /\ Bound(heap, 1, "square")
    /\ out = <<>>

====
